---- MODULE Spec2Model ----
\* gitignore-generator: the template merge/diff engine (generator.py) and the
\* template catalog search (templates.py), modelled as state machines.
\*
\* Text is modelled as Python sees it: a str is a sequence of one-character
\* strings, "\n" included, so split, strip, rstrip, startswith and the "in"
\* substring test are computed character by character.
EXTENDS Integers, Sequences, FiniteSets, TLC

VARIABLES
    file,   \* the output file at output_path: [exists, text]
    op,     \* the operation that ran last
    args,   \* its arguments (and the file as it was when it started)
    ret,    \* its return value
    _manifest,      \* TemplateManager._manifest: None or the catalog in memory
    manifest_file,  \* MANIFEST_FILE on disk: [exists, age, readable, data]
    effects,        \* what the last step did to the disk and the network
    templates_cache,    \* the files of TEMPLATES_CACHE_DIR: name -> [exists, text]
    cli     \* GitignoreGeneratorCLI.run: its position, its locals, its exit code

vars ==
    <<file, op, args, ret, _manifest, manifest_file, effects, templates_cache, cli>>

----------------------------------------------------------------------------
\* Python str primitives

NL == "\n"

\* str.strip()/rstrip() with no argument remove ASCII whitespace.
IsSpace(c) == c = " " \/ c = "\n" \/ c = "\t" \/ c = "\r"

RECURSIVE lstrip(_)
lstrip(s) ==
    IF s # <<>> /\ IsSpace(Head(s)) THEN lstrip(Tail(s)) ELSE s

RECURSIVE rstrip(_)
rstrip(s) ==
    IF s # <<>> /\ IsSpace(s[Len(s)]) THEN rstrip(SubSeq(s, 1, Len(s) - 1)) ELSE s

strip(s) == rstrip(lstrip(s))

startswith(s, prefix) ==
    Len(prefix) <= Len(s) /\ SubSeq(s, 1, Len(prefix)) = prefix

\* sub in s
contains(s, sub) ==
    \E i \in 0..(Len(s) - Len(sub)) : \A j \in 1..Len(sub) : s[i + j] = sub[j]

\* s.split(sep) for a one-character sep: always at least one field.
RECURSIVE split(_, _)
split(s, sep) ==
    IF \A i \in 1..Len(s) : s[i] # sep
    THEN <<s>>
    ELSE LET i == CHOOSE k \in 1..Len(s) :
                      s[k] = sep /\ \A j \in 1..(k - 1) : s[j] # sep
         IN  <<SubSeq(s, 1, i - 1)>> \o split(SubSeq(s, i + 1, Len(s)), sep)

\* c * n
RECURSIVE repeat(_, _)
repeat(c, n) == IF n <= 0 THEN <<>> ELSE <<c>> \o repeat(c, n - 1)

\* Optional[str]
None == [isNone |-> TRUE, val |-> <<>>]
Some(s) == [isNone |-> FALSE, val |-> s]
\* the truth value Python gives an Optional[str]: None and "" are false
Truthy(o) == ~o.isNone /\ o.val # <<>>

----------------------------------------------------------------------------
\* GitignoreGenerator (generator.py)

\* "##### "
HeaderOpen == <<"#", "#", "#", "#", "#", " ">>
\* " #####"
HeaderClose == <<" ", "#", "#", "#", "#", "#">>

\* "##### Project Specific #####"
this_repo_header ==
    HeaderOpen
    \o <<"P", "r", "o", "j", "e", "c", "t", " ",
         "S", "p", "e", "c", "i", "f", "i", "c">>
    \o HeaderClose

\* "# Add your project-specific rules below this line\n"
instruction_line ==
    <<"#", " ", "A", "d", "d", " ", "y", "o", "u", "r", " ",
      "p", "r", "o", "j", "e", "c", "t", "-", "s", "p", "e", "c", "i", "f", "i", "c", " ",
      "r", "u", "l", "e", "s", " ", "b", "e", "l", "o", "w", " ",
      "t", "h", "i", "s", " ", "l", "i", "n", "e", NL>>

_normalize_template_name(name) ==
    LET parts == split(name, "/") IN parts[Len(parts)]

template_to_section(template_name, content) ==
    LET header == _normalize_template_name(template_name)
        header_line == HeaderOpen \o header \o HeaderClose
        decorator == repeat("#", Len(header_line))
    IN  decorator \o <<NL>>
        \o header_line \o <<NL>>
        \o decorator \o <<NL>>
        \o rstrip(content) \o <<NL>>

_extract_rules(content) ==
    LET lines == split(content, NL)
    IN  { strip(lines[i]) : i \in { k \in 1..Len(lines) :
              LET stripped == strip(lines[k])
              IN  stripped # <<>> /\ ~startswith(stripped, <<"#">>) } }

\* the loop, were it to leave out every section that repeats an earlier rule
RECURSIVE merge_loop_skips_shared(_, _, _)
merge_loop_skips_shared(templates, merged, all_rules) ==
    IF templates = <<>>
    THEN merged
    ELSE LET template_name == Head(templates)[1]
             content == Head(templates)[2]
             template_rules == _extract_rules(content)
             section == template_to_section(template_name, content)
         IN  merge_loop_skips_shared(Tail(templates),
                 IF template_rules # {} /\ template_rules \cap all_rules = {}
                 THEN merged \o section \o <<NL>> ELSE merged,
                 all_rules \cup template_rules)

\* the loop, were it to compare each template with the existing document only
RECURSIVE merge_loop_ignores_earlier(_, _, _)
merge_loop_ignores_earlier(templates, merged, all_rules) ==
    IF templates = <<>>
    THEN merged
    ELSE LET template_name == Head(templates)[1]
             content == Head(templates)[2]
             template_rules == _extract_rules(content)
             new_rules == template_rules \ all_rules
             section == template_to_section(template_name, content)
         IN  merge_loop_ignores_earlier(Tail(templates),
                        IF new_rules # {} THEN merged \o section \o <<NL>> ELSE merged,
                        all_rules)

\* the "for template_name, content in templates" loop of merge_templates
RECURSIVE merge_loop(_, _, _)
merge_loop(templates, merged, all_rules) ==
    IF templates = <<>>
    THEN merged
    ELSE LET template_name == Head(templates)[1]
             content == Head(templates)[2]
             template_rules == _extract_rules(content)
             new_rules == template_rules \ all_rules
             section == template_to_section(template_name, content)
         IN  merge_loop(Tail(templates),
                        IF new_rules # {} THEN merged \o section \o <<NL>> ELSE merged,
                        all_rules \cup template_rules)

\* the block, were it to copy the existing document whatever it holds
merge_existing_always_copies(preserve_existing, existing_content) ==
    IF preserve_existing /\ Truthy(existing_content)
    THEN <<rstrip(existing_content.val) \o <<NL, NL>>,
           _extract_rules(existing_content.val)>>
    ELSE <<(<<>>), {}>>

\* the "Preserve existing rules if requested" block: <<merged, all_rules>>
merge_existing(preserve_existing, existing_content) ==
    IF preserve_existing /\ Truthy(existing_content)
    THEN <<IF ~contains(existing_content.val, this_repo_header)
           THEN rstrip(existing_content.val) \o <<NL, NL>>
           ELSE <<>>,
           _extract_rules(existing_content.val)>>
    ELSE <<(<<>>), {}>>

\* the "Add marker for user's additional rules" block: the text it appends
marker_section ==
    LET decorator == repeat("#", Len(this_repo_header))
    IN  decorator \o <<NL>>
        \o this_repo_header \o <<NL>>
        \o decorator \o <<NL>>
        \o instruction_line

merge_templates(templates, preserve_existing, existing_content) ==
    LET start == merge_existing(preserve_existing, existing_content)
        merged == merge_loop(templates, start[1], start[2]) \o marker_section
    IN  rstrip(merged) \o <<NL>>

\* Code-point order of the characters the model's texts use (ASCII, ascending).
Ascii ==
    <<"\t", "\n", "\r", " ", "#", "*", "-", ".", "/",
      "A", "B", "G", "M", "P", "S", "T", "W",
      "a", "b", "c", "d", "e", "f", "g", "h", "i", "j", "k", "l", "m",
      "n", "o", "p", "q", "r", "s", "t", "u", "v", "w", "x", "y", "z">>

ord(c) == CHOOSE i \in 1..Len(Ascii) : Ascii[i] = c

\* a < b for Python str: lexicographic by code point, a proper prefix first
RECURSIVE str_lt(_, _)
str_lt(a, b) ==
    IF b = <<>> THEN FALSE
    ELSE IF a = <<>> THEN TRUE
    ELSE IF Head(a) # Head(b) THEN ord(Head(a)) < ord(Head(b))
    ELSE str_lt(Tail(a), Tail(b))

\* sorted(S, reverse=True)
RECURSIVE sorted_reverse(_)
sorted_reverse(S) ==
    IF S = {} THEN <<>>
    ELSE LET greatest == CHOOSE x \in S : \A y \in S \ {x} : str_lt(y, x)
         IN  <<greatest>> \o sorted_reverse(S \ {greatest})

\* sorted(S) for a set of str
RECURSIVE sorted(_)
sorted(S) ==
    IF S = {} THEN <<>>
    ELSE LET least == CHOOSE x \in S : \A y \in S \ {x} : str_lt(x, y)
         IN  <<least>> \o sorted(S \ {least})

\* the "for _, content in new_templates" loop of diff_templates
RECURSIVE diff_new_rules(_)
diff_new_rules(new_templates) ==
    IF new_templates = <<>> THEN {}
    ELSE _extract_rules(Head(new_templates)[2]) \cup diff_new_rules(Tail(new_templates))

\* The summary text, one record per line it holds: the two count lines, then,
\* when there are duplicates, a heading, up to 5 "  - rule" lines and an
\* "... and n more" line.
diff_templates(existing_content, new_templates) ==
    LET existing_rules == _extract_rules(existing_content)
        new_rules == diff_new_rules(new_templates)
        duplicates == existing_rules \cap new_rules
        additions == new_rules \ existing_rules
        ordered == sorted(duplicates)
        shown == SubSeq(ordered, 1, IF Len(ordered) < 5 THEN Len(ordered) ELSE 5)
    IN  <<[kind |-> "Duplicate rules to skip", n |-> Cardinality(duplicates), rule |-> <<>>],
          [kind |-> "New rules to add", n |-> Cardinality(additions), rule |-> <<>>]>>
        \o (IF duplicates # {}
            THEN <<[kind |-> "Duplicate rules (examples)", n |-> 0, rule |-> <<>>]>>
                 \o [i \in 1..Len(shown) |-> [kind |-> "  - ", n |-> 0, rule |-> shown[i]]]
                 \o (IF Cardinality(duplicates) > 5
                     THEN <<[kind |-> "... and more", n |-> Cardinality(duplicates) - 5,
                             rule |-> <<>>]>>
                     ELSE <<>>)
            ELSE <<>>)

----------------------------------------------------------------------------
\* TemplateManager (templates.py)

\* str.lower() on the letters the catalog names use
lower_char(c) ==
    CASE c = "A" -> "a" [] c = "B" -> "b" [] c = "C" -> "c" [] c = "G" -> "g"
      [] c = "P" -> "p" [] c = "L" -> "l" [] c = "M" -> "m" [] c = "O" -> "o"
      [] c = "S" -> "s" [] c = "W" -> "w" [] OTHER -> c

lower(s) == [i \in 1..Len(s) |-> lower_char(s[i])]

CACHE_VALIDITY_DAYS == 7

\* "Global" and "community", the two category folders
GlobalFolder == <<"G", "l", "o", "b", "a", "l">>
CommunityFolder == <<"c", "o", "m", "m", "u", "n", "i", "t", "y">>

\* A manifest: per category the full names of its templates, in the order
\* they were inserted (the order the dict iterates in), and whether it is the
\* stamped dict _fetch_manifest_from_api builds or the bare {} it returns when
\* the root listing cannot be fetched.
EmptyDict == [root |-> <<>>, Global |-> <<>>, community |-> <<>>, timestamp |-> FALSE]

NoManifest == [isNone |-> TRUE, val |-> EmptyDict]
LoadedManifest(m) == [isNone |-> FALSE, val |-> m]

\* MANIFEST_FILE: age is the whole days since its modification time; readable
\* says whether open and json.load succeed on it.
NoManifestFile == [exists |-> FALSE, age |-> 0, readable |-> FALSE, data |-> EmptyDict]

\* the validity test, were a file of exactly CACHE_VALIDITY_DAYS still valid
_is_cache_valid_inclusive(mf) == mf.exists /\ mf.age <= CACHE_VALIDITY_DAYS

\* _is_cache_valid: age < timedelta(days=CACHE_VALIDITY_DAYS), the age being
\* counted in whole days elapsed
_is_cache_valid(mf) == mf.exists /\ mf.age < CACHE_VALIDITY_DAYS

\* The remote listings. An item is a file or a directory; gitignore says
\* whether a file's name ends in ".gitignore", and name is the name without
\* that suffix.
FileItem(name) == [type |-> "file", name |-> name, gitignore |-> TRUE, items |-> <<>>]
OtherFile(name) == [type |-> "file", name |-> name, gitignore |-> FALSE, items |-> <<>>]
DirItem(name, items) == [type |-> "dir", name |-> name, gitignore |-> FALSE, items |-> items]

RemoteRoot ==
    <<FileItem(<<"A", "b", "c">>), OtherFile(<<"R">>), FileItem(<<"A", "b">>),
      DirItem(GlobalFolder, <<>>), FileItem(<<"A", "B">>)>>
RemoteGlobal == <<FileItem(<<"A", "b">>), OtherFile(<<"R">>)>>
RemoteCommunity ==
    <<DirItem(<<"P">>, <<FileItem(<<"a", "b">>), OtherFile(<<"R">>)>>),
      FileItem(<<"b">>)>>

\* the listing requests of one fetch and what each can come to: the listing,
\* None from _fetch_from_api, or text json.loads rejects
Requests == {"root", "Global", "community", "dir"}
Outcomes == {"ok", "none", "bad json"}

\* What one step did: whether it was a call of a TemplateManager method and
\* whether self._manifest was set when the call began; the manifest file as
\* _is_cache_valid found it; whether the file was opened and parsed ("none"
\* when it was not tried); the response to each listing request ("unsent"
\* when the request was not made); whether the manifest was dumped to disk.
Unsent == [r \in Requests |-> "unsent"]
\* Of the template's content: whether the cache file was read, what the
\* download request came to, whether the content was written to the cache.
NoEffects ==
    [call |-> FALSE, in_memory |-> FALSE, stat |-> [exists |-> FALSE, age |-> 0],
     read |-> "none", responses |-> Unsent, save |-> "none",
     cache_read |-> "none", download |-> "unsent", cache_write |-> "none"]

\* whether a listing holds a directory, for which a further request is made
has_dir(items) == \E i \in 1..Len(items) : items[i].type = "dir"

\* the names of the ".gitignore" files of a listing, prefixed
RECURSIVE file_names(_, _)
file_names(items, prefix) ==
    IF items = <<>> THEN <<>>
    ELSE (IF Head(items).type = "file" /\ Head(items).gitignore
          THEN <<prefix \o Head(items).name>> ELSE <<>>)
         \o file_names(Tail(items), prefix)

\* the "for item in items" loop over a category folder's listing
RECURSIVE subfolder_names(_, _, _)
subfolder_names(items, subfolder, outcome) ==
    IF items = <<>> THEN <<>>
    ELSE LET item == Head(items)
         IN  (IF item.type = "dir"
              THEN IF outcome["dir"] = "ok"
                   THEN file_names(item.items, subfolder \o <<"/">> \o item.name \o <<"/">>)
                   ELSE <<>>
              ELSE IF item.type = "file" /\ item.gitignore
              THEN <<subfolder \o <<"/">> \o item.name>>
              ELSE <<>>)
             \o subfolder_names(Tail(items), subfolder, outcome)

\* a dict keeps one entry per key, at the place of the key's first insertion
RECURSIVE dict_keys(_)
dict_keys(names) ==
    IF names = <<>> THEN <<>>
    ELSE LET before == dict_keys(SubSeq(names, 1, Len(names) - 1))
             last == names[Len(names)]
         IN  IF \E i \in 1..Len(before) : before[i] = last THEN before
             ELSE Append(before, last)

\* the fetch, were a failed Global listing to end the loop over the folders
_fetch_manifest_from_api_breaks(outcome) ==
    IF outcome["root"] = "none"
    THEN [manifest |-> EmptyDict, saves |-> FALSE,
          responses |-> [Unsent EXCEPT !["root"] = "none"]]
    ELSE [manifest |->
            [root |-> IF outcome["root"] = "ok"
                      THEN dict_keys(file_names(RemoteRoot, <<>>)) ELSE <<>>,
             Global |-> IF outcome["Global"] = "ok"
                        THEN dict_keys(subfolder_names(RemoteGlobal, GlobalFolder, outcome))
                        ELSE <<>>,
             community |-> IF outcome["Global"] = "ok" /\ outcome["community"] = "ok"
                           THEN dict_keys(subfolder_names(RemoteCommunity, CommunityFolder,
                                                          outcome))
                           ELSE <<>>,
             timestamp |-> TRUE],
          saves |-> TRUE,
          responses |->
            [r \in Requests |->
                IF r = "dir"
                THEN IF \/ outcome["Global"] = "ok" /\ has_dir(RemoteGlobal)
                        \/ outcome["community"] = "ok" /\ has_dir(RemoteCommunity)
                     THEN outcome[r] ELSE "unsent"
                ELSE outcome[r]]]

\* _fetch_manifest_from_api: the manifest it returns, whether it got as far
\* as self._manifest = manifest; self._save_manifest(), and the requests made
_fetch_manifest_from_api(outcome) ==
    IF outcome["root"] = "none"
    THEN [manifest |-> EmptyDict, saves |-> FALSE,
          responses |-> [Unsent EXCEPT !["root"] = "none"]]
    ELSE [manifest |->
            [root |-> IF outcome["root"] = "ok"
                      THEN dict_keys(file_names(RemoteRoot, <<>>)) ELSE <<>>,
             Global |-> IF outcome["Global"] = "ok"
                        THEN dict_keys(subfolder_names(RemoteGlobal, GlobalFolder, outcome))
                        ELSE <<>>,
             community |-> IF outcome["community"] = "ok"
                           THEN dict_keys(subfolder_names(RemoteCommunity, CommunityFolder,
                                                          outcome))
                           ELSE <<>>,
             timestamp |-> TRUE],
          saves |-> TRUE,
          responses |->
            [r \in Requests |->
                IF r = "dir"
                THEN IF \/ outcome["Global"] = "ok" /\ has_dir(RemoteGlobal)
                        \/ outcome["community"] = "ok" /\ has_dir(RemoteCommunity)
                     THEN outcome[r] ELSE "unsent"
                ELSE outcome[r]]]

\* _save_manifest: the file after json.dump of m, or left as it was when the
\* file cannot be opened for writing
_save_manifest(mf, m, save_ok) ==
    IF save_ok THEN [exists |-> TRUE, age |-> 0, readable |-> TRUE, data |-> m] ELSE mf

\* the load, were a valid file that cannot be read to end it with an empty
\* catalog
_load_manifest_gives_up(mf, outcome, save_ok) ==
    IF _is_cache_valid(mf)
    THEN [manifest |-> IF mf.readable THEN mf.data ELSE EmptyDict, file |-> mf,
          effects |-> [NoEffects EXCEPT !.call = TRUE,
                                        !.stat = [exists |-> mf.exists, age |-> mf.age],
                                        !.read = IF mf.readable THEN "ok" ELSE "raises"]]
    ELSE LET fetched == _fetch_manifest_from_api(outcome)
         IN  [manifest |-> fetched.manifest,
              file |-> IF fetched.saves
                       THEN _save_manifest(mf, fetched.manifest, save_ok) ELSE mf,
              effects |->
                [NoEffects EXCEPT
                    !.call = TRUE,
                    !.stat = [exists |-> mf.exists, age |-> mf.age],
                    !.responses = fetched.responses,
                    !.save = IF ~fetched.saves THEN "none"
                             ELSE IF save_ok THEN "ok" ELSE "raises"]]

\* the load, were it to fetch anew after reading a persisted catalog in
\* which a category is empty
_load_manifest_refetches_emptied(mf, outcome, save_ok) ==
    IF _is_cache_valid(mf) /\ mf.readable
       /\ mf.data.Global # <<>> /\ mf.data.community # <<>>
    THEN [manifest |-> mf.data, file |-> mf,
          effects |-> [NoEffects EXCEPT !.call = TRUE,
                                        !.stat = [exists |-> mf.exists, age |-> mf.age],
                                        !.read = "ok"]]
    ELSE LET fetched == _fetch_manifest_from_api(outcome)
         IN  [manifest |-> fetched.manifest,
              file |-> IF fetched.saves
                       THEN _save_manifest(mf, fetched.manifest, save_ok) ELSE mf,
              effects |->
                [NoEffects EXCEPT
                    !.call = TRUE,
                    !.stat = [exists |-> mf.exists, age |-> mf.age],
                    !.read = IF ~_is_cache_valid(mf) THEN "none"
                             ELSE IF mf.readable THEN "ok" ELSE "raises",
                    !.responses = fetched.responses,
                    !.save = IF ~fetched.saves THEN "none"
                             ELSE IF save_ok THEN "ok" ELSE "raises"]]

\* _load_manifest: the manifest returned, the manifest file left and what
\* was done to get it
_load_manifest(mf, outcome, save_ok) ==
    IF _is_cache_valid(mf) /\ mf.readable
    THEN [manifest |-> mf.data, file |-> mf,
          effects |-> [NoEffects EXCEPT !.call = TRUE,
                                        !.stat = [exists |-> mf.exists, age |-> mf.age],
                                        !.read = "ok"]]
    ELSE LET fetched == _fetch_manifest_from_api(outcome)
         IN  [manifest |-> fetched.manifest,
              file |-> IF fetched.saves
                       THEN _save_manifest(mf, fetched.manifest, save_ok) ELSE mf,
              effects |->
                [NoEffects EXCEPT
                    !.call = TRUE,
                    !.stat = [exists |-> mf.exists, age |-> mf.age],
                    !.read = IF _is_cache_valid(mf) THEN "raises" ELSE "none",
                    !.responses = fetched.responses,
                    !.save = IF ~fetched.saves THEN "none"
                             ELSE IF save_ok THEN "ok" ELSE "raises"]]

\* get_manifest, were it to load again whenever the catalog in memory is the
\* empty dict of a failed fetch
get_manifest_retries(m, mf, outcome, save_ok) ==
    IF m.isNone \/ m.val = EmptyDict THEN _load_manifest(mf, outcome, save_ok)
    ELSE [manifest |-> m.val, file |-> mf,
          effects |-> [NoEffects EXCEPT !.call = TRUE, !.in_memory = TRUE]]

\* get_manifest: loads on first use, then answers from memory
get_manifest(m, mf, outcome, save_ok) ==
    IF m.isNone THEN _load_manifest(mf, outcome, save_ok)
    ELSE [manifest |-> m.val, file |-> mf,
          effects |-> [NoEffects EXCEPT !.call = TRUE, !.in_memory = TRUE]]

\* the "Collect all templates" loop
all_templates(manifest) == manifest.root \o manifest.Global \o manifest.community

\* the "Exact match (case-insensitive)" loop: the first match, if any
RECURSIVE exact_loop(_, _)
exact_loop(templates, query_lower) ==
    IF templates = <<>> THEN <<>>
    ELSE IF lower(Head(templates)) = query_lower THEN <<Head(templates)>>
    ELSE exact_loop(Tail(templates), query_lower)

\* the "Prefix match" loop
RECURSIVE prefix_loop(_, _)
prefix_loop(templates, query_lower) ==
    IF templates = <<>> THEN <<>>
    ELSE (IF startswith(lower(Head(templates)), query_lower)
          THEN <<Head(templates)>> ELSE <<>>)
         \o prefix_loop(Tail(templates), query_lower)

\* the loop, were it to append without the "template not in results" test
RECURSIVE partial_loop_appends_again(_, _, _)
partial_loop_appends_again(templates, query_lower, results) ==
    IF templates = <<>> THEN results
    ELSE LET template == Head(templates)
         IN  partial_loop_appends_again(Tail(templates), query_lower,
                 IF contains(lower(template), query_lower)
                 THEN Append(results, template) ELSE results)

\* the "Partial match" loop, appending to results
RECURSIVE partial_loop(_, _, _)
partial_loop(templates, query_lower, results) ==
    IF templates = <<>> THEN results
    ELSE LET template == Head(templates)
         IN  partial_loop(Tail(templates), query_lower,
                 IF contains(lower(template), query_lower)
                    /\ \A i \in 1..Len(results) : results[i] # template
                 THEN Append(results, template) ELSE results)

\* search_templates without the exact-match pass
search_templates_no_exact(manifest, query) ==
    LET query_lower == lower(query)
        templates == all_templates(manifest)
    IN  IF strip(query) = <<>> THEN <<>>
        ELSE partial_loop(templates, query_lower, prefix_loop(templates, query_lower))

search_templates(manifest, query) ==
    LET query_lower == lower(query)
        templates == all_templates(manifest)
        exact == exact_loop(templates, query_lower)
    IN  IF strip(query) = <<>> THEN <<>>
        ELSE IF exact # <<>> THEN exact
        ELSE partial_loop(templates, query_lower, prefix_loop(templates, query_lower))

\* resolve_template, were it to take the first candidate of several
resolve_template_first_candidate(manifest, template_name) ==
    LET exact == exact_loop(all_templates(manifest), lower(template_name))
        matches == search_templates(manifest, template_name)
    IN  IF exact # <<>> THEN Some(exact[1])
        ELSE IF Len(matches) >= 1 THEN Some(matches[1])
        ELSE None

\* resolve_template: the "Try exact match first" loops over the categories,
\* then the search
resolve_template(manifest, template_name) ==
    LET exact == exact_loop(all_templates(manifest), lower(template_name))
        matches == search_templates(manifest, template_name)
    IN  IF exact # <<>> THEN Some(exact[1])
        ELSE IF Len(matches) = 1 THEN Some(matches[1])
        ELSE None

\* template_name.replace('/', '_') followed by ".gitignore"
cache_file(template_name) ==
    [i \in 1..Len(template_name) |->
        IF template_name[i] = "/" THEN "_" ELSE template_name[i]]
    \o <<".", "g", "i", "t", "i", "g", "n", "o", "r", "e">>

CR == "\r"

\* f.read() of a file opened with open(cache_file, 'r'): the newline
\* translation of text mode turns "\r\n" and "\r" into "\n"
text_read(bytes) ==
    LET kept == SelectSeq([i \in 1..Len(bytes) |-> i],
                          LAMBDA i : ~(bytes[i] = CR /\ i < Len(bytes)
                                       /\ bytes[i + 1] = NL))
    IN  IF \A i \in 1..Len(bytes) : bytes[i] # CR THEN bytes
        ELSE [k \in 1..Len(kept) |-> IF bytes[kept[k]] = CR THEN NL
                                     ELSE bytes[kept[k]]]

NoCacheFile == [exists |-> FALSE, text |-> <<>>]

\* get_template_content, were it to trust the cache only while the persisted
\* catalog is valid
get_template_content_expiring(manifest, mf, cache, template_name, download, read_ok, write_ok) ==
    LET known == \E i \in 1..Len(all_templates(manifest)) :
                     all_templates(manifest)[i] = template_name
        cached == cache[cache_file(template_name)]
        reads == cached.exists /\ _is_cache_valid(mf)
    IN  IF ~known
        THEN [ret |-> None, cache |-> cache, cache_read |-> "none",
              download |-> "unsent", cache_write |-> "none"]
        ELSE IF reads /\ read_ok
        THEN [ret |-> Some(text_read(cached.text)), cache |-> cache,
              cache_read |-> "ok", download |-> "unsent", cache_write |-> "none"]
        ELSE [ret |-> download,
              cache |-> IF Truthy(download) /\ write_ok
                        THEN [cache EXCEPT ![cache_file(template_name)] =
                                 [exists |-> TRUE, text |-> download.val]]
                        ELSE cache,
              cache_read |-> IF reads THEN "raises" ELSE "none",
              download |-> IF download.isNone THEN "none" ELSE "ok",
              cache_write |-> IF ~Truthy(download) THEN "none"
                              ELSE IF write_ok THEN "ok" ELSE "raises"]

\* get_template_content, were a failed download to leave an empty cache file
get_template_content_marks_failure(manifest, mf, cache, template_name, download, read_ok, write_ok) ==
    LET known == \E i \in 1..Len(all_templates(manifest)) :
                     all_templates(manifest)[i] = template_name
        cached == cache[cache_file(template_name)]
    IN  IF ~known
        THEN [ret |-> None, cache |-> cache, cache_read |-> "none",
              download |-> "unsent", cache_write |-> "none"]
        ELSE IF cached.exists /\ read_ok
        THEN [ret |-> Some(text_read(cached.text)), cache |-> cache,
              cache_read |-> "ok", download |-> "unsent", cache_write |-> "none"]
        ELSE [ret |-> download,
              cache |-> IF write_ok
                        THEN [cache EXCEPT ![cache_file(template_name)] =
                                 [exists |-> TRUE, text |-> download.val]]
                        ELSE cache,
              cache_read |-> IF cached.exists THEN "raises" ELSE "none",
              download |-> IF download.isNone THEN "none" ELSE "ok",
              cache_write |-> IF write_ok THEN "ok" ELSE "raises"]

\* get_template_content on the catalog get_manifest gave: the content
\* returned, the cache directory left, and what was read, requested and
\* written. mf is the manifest file, which the code does not look at here.
get_template_content(manifest, mf, cache, template_name, download, read_ok, write_ok) ==
    LET known == \E i \in 1..Len(all_templates(manifest)) :
                     all_templates(manifest)[i] = template_name
        cached == cache[cache_file(template_name)]
    IN  IF ~known
        THEN [ret |-> None, cache |-> cache, cache_read |-> "none",
              download |-> "unsent", cache_write |-> "none"]
        ELSE IF cached.exists /\ read_ok
        THEN [ret |-> Some(text_read(cached.text)), cache |-> cache,
              cache_read |-> "ok", download |-> "unsent", cache_write |-> "none"]
        ELSE [ret |-> download,
              cache |-> IF Truthy(download) /\ write_ok
                        THEN [cache EXCEPT ![cache_file(template_name)] =
                                 [exists |-> TRUE, text |-> download.val]]
                        ELSE cache,
              cache_read |-> IF cached.exists THEN "raises" ELSE "none",
              download |-> IF download.isNone THEN "none" ELSE "ok",
              cache_write |-> IF ~Truthy(download) THEN "none"
                              ELSE IF write_ok THEN "ok" ELSE "raises"]

\* the names whose content is asked for: "Ab" of the root listing and "ab",
\* which no listing has
ContentNames == { <<"A", "b">>, <<"a", "b">> }

\* every name the remote listings can put in the catalog
RemoteNames ==
    LET listed == all_templates(_fetch_manifest_from_api([r \in Requests |-> "ok"]).manifest)
    IN  { listed[i] : i \in 1..Len(listed) }

EmptyCache ==
    [f \in { cache_file(n) : n \in ContentNames \cup RemoteNames } |-> NoCacheFile]

\* no run of the command-line flow
NoRun == [pc |-> "none"]

\* what a download request can come to: None from _fetch_from_api, an empty
\* body, "x\n", or "y\r\nz"
DownloadOutcomes ==
    { None, Some(<<>>), Some(<<"x", NL>>), Some(<<"y", CR, NL, "z">>) }

----------------------------------------------------------------------------
\* Inputs: templates as (template_name, content) pairs

\* ("Python", "a\nb\n")
tPython == << <<"P">>, <<"a", NL, "b", NL>> >>
\* ("Global/Windows", "a\n c \n"): shares rule a, adds rule c (padded line)
tWindows == << <<"G", "/", "W">>, <<"a", NL, " ", "c", " ", NL>> >>
\* ("Test", "# x\nb\n\n"): a comment, one rule and trailing blank lines
tTest == << <<"T">>, <<"#", " ", "x", NL, "b", NL, NL>> >>
\* ("D", "d\nd"): the same rule on two lines, no final newline
tTwice == << <<"D">>, <<"d", NL, "d">> >>
\* ("M", "##### Project Specific #####\nm\n"): content quoting the marker heading
tMarker == << <<"M">>, this_repo_header \o <<NL, "m", NL>> >>
\* ("B", "g\nf\nB\nab\na\n*.c\nb\n"): seven rules, unsorted
tBig == << <<"B">>, <<"g", NL, "f", NL, "B", NL, "a", "b", NL, "a", NL,
                      "*", ".", "c", NL, "b", NL>> >>
\* ("N", "# n\n"): comments only, no rule
tNoRules == << <<"N">>, <<"#", " ", "n", NL>> >>

TemplatePool == {tPython, tWindows, tTest, tTwice, tMarker, tBig, tNoRules}

\* longest template list passed to merge_templates / diff_templates
MaxTemplates == 2

RECURSIVE SeqsUpTo(_, _)
SeqsUpTo(S, n) ==
    IF n = 0 THEN {<<>>}
    ELSE LET shorter == SeqsUpTo(S, n - 1)
         IN  shorter \cup { Append(l, t) : l \in { x \in shorter : Len(x) = n - 1 }, t \in S }

TemplateLists == SeqsUpTo(TemplatePool, MaxTemplates)

\* Existing documents: hand-written ones without the marker heading, and
\* documents an earlier merge produced (with the marker heading), one of them
\* with a rule the user added below the marker.
docUser == <<"u", NL>>
docUserShared == <<" ", "a", NL, "#", " ", "k", NL, NL>>
docGenerated == merge_templates(<<tPython>>, FALSE, None)
docGeneratedEdited == docGenerated \o <<"u", NL>>
docBig == merge_templates(<<tBig>>, FALSE, None)

ExistingDocs == {<<>>, docUser, docUserShared, docGenerated, docGeneratedEdited, docBig}

NoFile == [exists |-> FALSE, text |-> <<>>]

----------------------------------------------------------------------------
\* Specification of the pure functions: the inputs are drawn in Init and the
\* actions apply merge_templates and diff_templates to them.

InitPure ==
    /\ file = NoFile
    /\ _manifest = NoManifest
    /\ manifest_file = NoManifestFile
    /\ effects = NoEffects
    /\ templates_cache = EmptyCache
    /\ cli = NoRun
    /\ op = "init"
    /\ \E templates \in TemplateLists, preserve_existing \in BOOLEAN,
          existing_content \in {None} \cup { Some(d) : d \in ExistingDocs } :
            args = [templates |-> templates,
                    preserve_existing |-> preserve_existing,
                    existing_content |-> existing_content]
    /\ ret = <<>>

MergeTemplates ==
    /\ op = "init"
    /\ op' = "merge_templates"
    /\ ret' = merge_templates(args.templates, args.preserve_existing, args.existing_content)
    /\ UNCHANGED <<file, args, _manifest, manifest_file, effects, templates_cache, cli>>

\* cli.run shows the diff against the text read from the existing file
DiffTemplates ==
    /\ op = "init"
    /\ ~args.existing_content.isNone
    /\ op' = "diff_templates"
    /\ ret' = diff_templates(args.existing_content.val, args.templates)
    /\ UNCHANGED <<file, args, _manifest, manifest_file, effects, templates_cache, cli>>

NextPure == MergeTemplates \/ DiffTemplates

SpecPure == InitPure /\ [][NextPure]_vars

----------------------------------------------------------------------------
\* Specification of generate: calls of generate, in any mode and with any
\* outcome of the file system, on one output path.

GeneratePool == {tPython, tWindows}

\* longest template list passed to generate
MaxGenerate == 2

GenerateLists == SeqsUpTo(GeneratePool, MaxGenerate)

\* the output path before the first call: no file, an empty file, or a
\* hand-written file
InitialFiles ==
    {NoFile} \cup { [exists |-> TRUE, text |-> d] : d \in {<<>>, docUser, docUserShared} }

MergeStrategies == {"create", "overwrite", "append", "cancel"}

\* what the file system does in this call: nothing goes wrong, open(path, 'r')
\* or f.read() raises, open(path, 'w') raises (the file is left as it was),
\* f.write raises after open(path, 'w') has truncated the file, or
\* output_path.exists() itself raises (a path that cannot be examined), which
\* happens before the try block and so leaves generate by an exception
IoOutcomes == {"ok", "read raises", "open raises", "write raises", "stat raises"}

\* generate, were it to read and preserve the existing file in every mode
generate_always_preserving(templates, merge_strategy, io, before) ==
    LET exists == before.exists
        appending == exists
        merged == IF appending
                  THEN merge_templates(templates, TRUE, Some(text_read(before.text)))
                  ELSE merge_templates(templates, FALSE, None)
        action == IF ~exists \/ merge_strategy = "overwrite" THEN "Created" ELSE "Updated"
    IN  IF templates = <<>>
        THEN [success |-> FALSE, message |-> "No templates provided", raised |-> FALSE,
              file |-> before]
        ELSE IF io = "stat raises"
        THEN [success |-> FALSE, message |-> "OSError", raised |-> TRUE,
              file |-> before]
        ELSE IF exists /\ merge_strategy = "cancel"
        THEN [success |-> FALSE, message |-> "Operation cancelled", raised |-> FALSE,
              file |-> before]
        ELSE IF (appending /\ io = "read raises") \/ io = "open raises"
        THEN [success |-> FALSE, message |-> "Error writing .gitignore", raised |-> FALSE,
              file |-> before]
        ELSE IF io = "write raises"
        THEN [success |-> FALSE, message |-> "Error writing .gitignore",
              raised |-> FALSE, file |-> [exists |-> TRUE, text |-> <<>>]]
        ELSE [success |-> TRUE, message |-> action, raised |-> FALSE,
              file |-> [exists |-> TRUE, text |-> merged]]

\* generate, were it not to test for an empty template list first
generate_any_list(templates, merge_strategy, io, before) ==
    LET exists == before.exists
        appending == exists /\ merge_strategy = "append"
        merged == IF appending
                  THEN merge_templates(templates, TRUE, Some(text_read(before.text)))
                  ELSE merge_templates(templates, FALSE, None)
        action == IF ~exists \/ merge_strategy = "overwrite" THEN "Created" ELSE "Updated"
    IN  IF io = "stat raises"
        THEN [success |-> FALSE, message |-> "OSError", raised |-> TRUE,
              file |-> before]
        ELSE IF exists /\ merge_strategy = "cancel"
        THEN [success |-> FALSE, message |-> "Operation cancelled", raised |-> FALSE,
              file |-> before]
        ELSE IF (appending /\ io = "read raises") \/ io = "open raises"
        THEN [success |-> FALSE, message |-> "Error writing .gitignore", raised |-> FALSE,
              file |-> before]
        ELSE IF io = "write raises"
        THEN [success |-> FALSE, message |-> "Error writing .gitignore",
              raised |-> FALSE, file |-> [exists |-> TRUE, text |-> <<>>]]
        ELSE [success |-> TRUE, message |-> action, raised |-> FALSE,
              file |-> [exists |-> TRUE, text |-> merged]]

\* generate's return value and the file it leaves, for the file it finds
generate(templates, merge_strategy, io, before) ==
    LET exists == before.exists
        appending == exists /\ merge_strategy = "append"
        merged == IF appending
                  THEN merge_templates(templates, TRUE, Some(text_read(before.text)))
                  ELSE merge_templates(templates, FALSE, None)
        action == IF ~exists \/ merge_strategy = "overwrite" THEN "Created" ELSE "Updated"
    IN  IF templates = <<>>
        THEN [success |-> FALSE, message |-> "No templates provided", raised |-> FALSE,
              file |-> before]
        ELSE IF io = "stat raises"
        THEN [success |-> FALSE, message |-> "OSError", raised |-> TRUE,
              file |-> before]
        ELSE IF exists /\ merge_strategy = "cancel"
        THEN [success |-> FALSE, message |-> "Operation cancelled", raised |-> FALSE,
              file |-> before]
        ELSE IF (appending /\ io = "read raises") \/ io = "open raises"
        THEN [success |-> FALSE, message |-> "Error writing .gitignore", raised |-> FALSE,
              file |-> before]
        ELSE IF io = "write raises"
        THEN [success |-> FALSE, message |-> "Error writing .gitignore",
              raised |-> FALSE, file |-> [exists |-> TRUE, text |-> <<>>]]
        ELSE [success |-> TRUE, message |-> action, raised |-> FALSE,
              file |-> [exists |-> TRUE, text |-> merged]]

Init ==
    /\ file \in InitialFiles
    /\ _manifest = NoManifest
    /\ manifest_file = NoManifestFile
    /\ effects = NoEffects
    /\ templates_cache = EmptyCache
    /\ cli = NoRun
    /\ op = "init"
    /\ args = <<>>
    /\ ret = <<>>

\* args.before keeps the file the call found at the output path, args.io
\* what the file system did. An operation that is not reached cannot fail:
\* nothing is examined for an empty list, nothing is opened after a cancel,
\* and the file is only read when appending to it.
Generate ==
    \E templates \in GenerateLists, merge_strategy \in MergeStrategies, io \in IoOutcomes :
        LET result == generate(templates, merge_strategy, io, file)
        IN  /\ io = "read raises" => file.exists /\ merge_strategy = "append"
            /\ templates = <<>> => io = "ok"
            /\ (file.exists /\ merge_strategy = "cancel") =>
                  io \in {"ok", "stat raises"}
            /\ op' = "generate"
            /\ args' = [templates |-> templates,
                        merge_strategy |-> merge_strategy,
                        io |-> io,
                        before |-> file]
            /\ ret' = [success |-> result.success, message |-> result.message,
                       raised |-> result.raised]
            /\ file' = result.file
            /\ UNCHANGED <<_manifest, manifest_file, effects, templates_cache, cli>>

Next == Generate

Spec == Init /\ [][Next]_vars

----------------------------------------------------------------------------
\* Reading a merged document back: its lines, its rule lines and its sections.
\* A section starts with a border line of "#", a "##### name #####" line of
\* the same length and the same border line again; its body runs to the next
\* section start or to the end of the document.

endswith(s, suffix) ==
    Len(suffix) <= Len(s) /\ SubSeq(s, Len(s) - Len(suffix) + 1, Len(s)) = suffix

DocLines(doc) == split(doc, NL)

IsBorder(line) == line # <<>> /\ \A i \in 1..Len(line) : line[i] = "#"

IsHeaderLine(line) ==
    /\ Len(line) >= Len(HeaderOpen) + Len(HeaderClose)
    /\ startswith(line, HeaderOpen)
    /\ endswith(line, HeaderClose)

HeaderName(line) == SubSeq(line, Len(HeaderOpen) + 1, Len(line) - Len(HeaderClose))

SectionStarts(lines) ==
    { i \in 1..(Len(lines) - 2) :
        /\ IsBorder(lines[i])
        /\ IsHeaderLine(lines[i + 1])
        /\ Len(lines[i + 1]) = Len(lines[i])
        /\ lines[i + 2] = lines[i] }

SectionName(lines, i) == HeaderName(lines[i + 1])

\* the line numbers of the body of the section starting at line i
SectionBody(lines, i) ==
    LET later == { j \in SectionStarts(lines) : j > i }
        stop == IF later = {} THEN Len(lines) + 1
                ELSE CHOOSE j \in later : \A k \in later : j <= k
    IN  (i + 3)..(stop - 1)

\* the sections of the templates: every section but the trailing marker section
TemplateSectionStarts(lines) ==
    LET starts == SectionStarts(lines)
    IN  { i \in starts : \E j \in starts : j > i }

\* rule r stands on a line of the body of the section starting at line i
RuleInSection(lines, i, r) == \E k \in SectionBody(lines, i) : strip(lines[k]) = r

\* how many lines of the document hold rule r
RuleLines(doc, r) ==
    LET lines == DocLines(doc)
    IN  Cardinality({ k \in 1..Len(lines) : strip(lines[k]) = r })

\* how many times the text sub occurs in s
Occurrences(s, sub) ==
    Cardinality({ i \in 0..(Len(s) - Len(sub)) : \A j \in 1..Len(sub) : s[i + j] = sub[j] })

\* the union of the templates' rule sets
TemplateRules(templates) ==
    UNION { _extract_rules(templates[i][2]) : i \in 1..Len(templates) }

Merged == op = "merge_templates"

\* merge_templates ran with an existing document that it preserves
Preserving == args.preserve_existing /\ Truthy(args.existing_content)

----------------------------------------------------------------------------
\* Claims about merge_templates and diff_templates (SpecPure)

RulesOf(template) == _extract_rules(template[2])

HeaderLineOf(template) ==
    HeaderOpen \o _normalize_template_name(template[1]) \o HeaderClose

\* C2 (as claimed): when two merged templates share a rule, the section of the
\* later one holds no line with a shared rule, and when the later one has no
\* rule of its own its section, header included, is left out.
C2_LaterSectionDropsSharedRules ==
    (Merged /\ Len(args.templates) = 2) =>
        LET t1 == args.templates[1]
            t2 == args.templates[2]
            shared == RulesOf(t1) \cap RulesOf(t2)
            name1 == _normalize_template_name(t1[1])
            name2 == _normalize_template_name(t2[1])
            lines == DocLines(ret)
            later == { i \in TemplateSectionStarts(lines) : SectionName(lines, i) = name2 }
        IN  shared # {} =>
              /\ name1 # name2 =>
                    \A i \in later : \A r \in shared : ~RuleInSection(lines, i, r)
              /\ RulesOf(t2) \subseteq RulesOf(t1) =>
                    Cardinality(later) <= (IF name1 = name2 THEN 1 ELSE 0)

\* C3 (as claimed): two templates with disjoint, non-empty rule sets, merged
\* without an existing document, give exactly two template sections and every
\* rule of either template stands on exactly one line of the output.
C3_DisjointPairEachRuleOnce ==
    (Merged /\ ~Preserving /\ Len(args.templates) = 2) =>
        LET r1 == RulesOf(args.templates[1])
            r2 == RulesOf(args.templates[2])
        IN  (r1 # {} /\ r2 # {} /\ r1 \cap r2 = {}) =>
              /\ Cardinality(TemplateSectionStarts(DocLines(ret))) = 2
              /\ \A r \in r1 \cup r2 : RuleLines(ret, r) = 1

\* C4: merged without an existing document, the rules read back from the
\* output include every rule of every input template, also of a template
\* whose section was left out as duplicate.
C4_OutputRulesCoverTemplates ==
    (Merged /\ ~Preserving) => TemplateRules(args.templates) \subseteq _extract_rules(ret)

\* C4 witness: the second template has rules, all of them in the first, so its
\* section is left out, and its rules are still read back from the output.
C4_Witness ==
    /\ Merged /\ ~Preserving /\ Len(args.templates) = 2
    /\ args.templates[1] # args.templates[2]
    /\ RulesOf(args.templates[2]) # {}
    /\ RulesOf(args.templates[2]) \subseteq RulesOf(args.templates[1])
    /\ Cardinality(TemplateSectionStarts(DocLines(ret))) = 1
    /\ RulesOf(args.templates[2]) \subseteq _extract_rules(ret)

\* a template whose header line or content holds the marker heading text
QuotesMarker(template) ==
    \/ contains(template[2], this_repo_header)
    \/ contains(HeaderLineOf(template), this_repo_header)

\* C5 (as claimed): every merged document holds the marker heading exactly once.
C5_MarkerExactlyOnce ==
    Merged => Occurrences(ret, this_repo_header) = 1

\* C5 (amended): every merged document holds the marker heading at least once,
\* and exactly once when no template's content or header line holds the
\* heading text; this in fresh and in preserving mode, whether or not the
\* existing document holds the heading.
C5_MarkerOnceUnlessQuoted ==
    Merged =>
        /\ Occurrences(ret, this_repo_header) >= 1
        /\ (\A i \in 1..Len(args.templates) : ~QuotesMarker(args.templates[i]))
              => Occurrences(ret, this_repo_header) = 1

\* C5 witness: a preserving merge over an existing document that holds the
\* heading, with a template that adds a section, gives the heading once.
C5_Witness ==
    /\ Merged /\ Preserving
    /\ contains(args.existing_content.val, this_repo_header)
    /\ \A i \in 1..Len(args.templates) : ~QuotesMarker(args.templates[i])
    /\ TemplateSectionStarts(DocLines(ret)) # {}
    /\ Occurrences(ret, this_repo_header) = 1

\* "##### This Repo #####"
ThisRepoLine ==
    HeaderOpen \o <<"T", "h", "i", "s", " ", "R", "e", "p", "o">> \o HeaderClose

IsLineOf(doc, line) == \E k \in 1..Len(DocLines(doc)) : DocLines(doc)[k] = line

\* C6 (as claimed): for templates with pairwise disjoint rules the merged
\* document holds the line "##### <display name> #####" of every template and
\* the line "##### This Repo #####".
C6_HeadersAndThisRepo ==
    (Merged /\ \A i, j \in 1..Len(args.templates) :
                    i # j => RulesOf(args.templates[i]) \cap RulesOf(args.templates[j]) = {})
    =>  /\ \A i \in 1..Len(args.templates) : IsLineOf(ret, HeaderLineOf(args.templates[i]))
        /\ IsLineOf(ret, ThisRepoLine)

\* C7 (as claimed): preserving an existing document without the marker
\* heading, a rule of the existing document stands in no template section,
\* and every template rule the existing document lacks stands in one.
C7_ExistingRulesOnlyInPreservedText ==
    (Merged /\ Preserving /\ ~contains(args.existing_content.val, this_repo_header)) =>
        LET lines == DocLines(ret)
            existing_rules == _extract_rules(args.existing_content.val)
        IN  /\ \A r \in existing_rules :
                  \A i \in TemplateSectionStarts(lines) : ~RuleInSection(lines, i, r)
            /\ \A r \in TemplateRules(args.templates) \ existing_rules :
                  \E i \in TemplateSectionStarts(lines) : RuleInSection(lines, i, r)

Diffed == op = "diff_templates"

\* the rules the summary lists as examples, in the order of its lines
ListedRules(summary) ==
    LET at == { i \in 1..Len(summary) : summary[i].kind = "  - " }
        first == CHOOSE i \in at : \A j \in at : i <= j
    IN  IF at = {} THEN <<>> ELSE [k \in 1..Cardinality(at) |-> summary[first + k - 1].rule]

MoreLines(summary) == { i \in 1..Len(summary) : summary[i].kind = "... and more" }

\* C8: the summary reports the number of distinct rules in both the existing
\* document and the templates, the number of distinct template rules the
\* existing document lacks, at most 5 of the duplicates in ascending order
\* and, beyond 5 duplicates, how many are not listed.
C8_DiffSummary ==
    Diffed =>
        LET existing_rules == _extract_rules(args.existing_content.val)
            both == { r \in TemplateRules(args.templates) : r \in existing_rules }
            only_new == { r \in TemplateRules(args.templates) : r \notin existing_rules }
            listed == ListedRules(ret)
        IN  /\ ret[1].kind = "Duplicate rules to skip" /\ ret[1].n = Cardinality(both)
            /\ ret[2].kind = "New rules to add" /\ ret[2].n = Cardinality(only_new)
            /\ Len(listed) = (IF Cardinality(both) < 5 THEN Cardinality(both) ELSE 5)
            /\ \A k \in 1..Len(listed) : listed[k] \in both
            /\ \A k \in 1..(Len(listed) - 1) : str_lt(listed[k], listed[k + 1])
            /\ IF Cardinality(both) > 5
               THEN \E i \in 1..Len(ret) :
                        /\ MoreLines(ret) = {i}
                        /\ ret[i].n = Cardinality(both) - 5
               ELSE MoreLines(ret) = {}

\* C8 witness: more than 5 duplicates, so 5 are listed and the rest counted,
\* next to at least one addition.
C8_Witness ==
    /\ Diffed
    /\ ret[1].n > 5
    /\ ret[2].n > 0
    /\ Len(ListedRules(ret)) = 5
    /\ MoreLines(ret) # {}

----------------------------------------------------------------------------
\* Claims about generate (Spec)

Generated == op = "generate"

\* C1 (as claimed): a successful generate in append mode on an existing file
\* keeps every rule the file held before the call.
C1_AppendKeepsRules ==
    (Generated /\ args.merge_strategy = "append" /\ args.before.exists /\ ret.success) =>
        _extract_rules(args.before.text) \subseteq _extract_rules(file.text)

\* C9: after a successful generate in create or overwrite mode the rules read
\* back from the file are exactly the union of the templates' rules, whatever
\* the file held before.
C9_CreateWritesTemplateRulesOnly ==
    (Generated /\ args.merge_strategy \in {"create", "overwrite"} /\ ret.success) =>
        /\ file.exists
        /\ _extract_rules(file.text) = TemplateRules(args.templates)

\* C9 witness: the file held a rule that no template contributes, and one of
\* the two templates was left out as duplicate.
C9_Witness ==
    /\ Generated /\ args.merge_strategy \in {"create", "overwrite"} /\ ret.success
    /\ args.before.exists
    /\ ~(_extract_rules(args.before.text) \subseteq TemplateRules(args.templates))
    /\ Len(args.templates) = 2
    /\ Cardinality(TemplateSectionStarts(DocLines(file.text))) = 1
    /\ _extract_rules(file.text) = TemplateRules(args.templates)

----------------------------------------------------------------------------
\* Specification of the TemplateManager: processes that load the catalog and
\* search it, while the persisted manifest ages.

\* oldest manifest file followed, in days
MaxAgeDays == 8

\* the queries tried: "", " ", "ab", "Ab", "AB", " ab", "abc", "b", "a",
\* "z", "c", "g", "global/ab", "COMMUNITY/P/AB"
Queries ==
    { <<>>, <<" ">>, <<"a", "b">>, <<"A", "b">>, <<"A", "B">>, <<" ", "a", "b">>,
      <<"a", "b", "c">>, <<"b">>, <<"a">>, <<"z">>, <<"c">>, <<"g">>,
      lower(GlobalFolder) \o <<"/", "a", "b">>,
      <<"C", "O", "M", "M", "U", "N", "I", "T", "Y", "/", "P", "/", "A", "B">> }

AllOk == [r \in Requests |-> "ok"]

\* most listing requests followed failing within one fetch
MaxFailures == 1

\* what the remote source and the disk may do during one call: only a call
\* that loads the catalog sends requests, only a fetch that completes saves
FetchOutcomes ==
    IF _manifest.isNone /\ ~(_is_cache_valid(manifest_file) /\ manifest_file.readable)
    THEN { outcome \in [Requests -> Outcomes] :
             Cardinality({ r \in Requests : outcome[r] # "ok" }) <= MaxFailures }
    ELSE {AllOk}

SaveOutcomes == IF FetchOutcomes = {AllOk} THEN {TRUE} ELSE BOOLEAN

InitTM ==
    /\ file = NoFile
    /\ op = "init"
    /\ args = <<>>
    /\ ret = <<>>
    /\ _manifest = NoManifest
    /\ manifest_file \in
          { NoManifestFile,
            [exists |-> TRUE, age |-> 0, readable |-> FALSE, data |-> EmptyDict] }
    /\ effects = NoEffects
    /\ templates_cache = EmptyCache
    /\ cli = NoRun

GetManifest ==
    \E outcome \in FetchOutcomes, save_ok \in SaveOutcomes :
        LET got == get_manifest(_manifest, manifest_file, outcome, save_ok)
        IN  /\ op' = "get_manifest"
            /\ args' = <<>>
            /\ ret' = got.manifest
            /\ _manifest' = LoadedManifest(got.manifest)
            /\ manifest_file' = got.file
            /\ effects' = got.effects
            /\ UNCHANGED <<file, templates_cache, cli>>

\* search_templates called with one of the queries given
SearchTemplatesOf(queries) ==
    \E query \in queries, outcome \in FetchOutcomes, save_ok \in SaveOutcomes :
        LET got == get_manifest(_manifest, manifest_file, outcome, save_ok)
        IN  /\ op' = "search_templates"
            /\ args' = [query |-> query]
            /\ ret' = search_templates(got.manifest, query)
            /\ _manifest' = LoadedManifest(got.manifest)
            /\ manifest_file' = got.file
            /\ effects' = got.effects
            /\ UNCHANGED <<file, templates_cache, cli>>

SearchTemplates == SearchTemplatesOf(Queries)

\* resolve_template called with one of the names given
ResolveTemplateOf(queries) ==
    \E template_name \in queries, outcome \in FetchOutcomes, save_ok \in SaveOutcomes :
        LET got == get_manifest(_manifest, manifest_file, outcome, save_ok)
        IN  /\ op' = "resolve_template"
            /\ args' = [query |-> template_name]
            /\ ret' = resolve_template(got.manifest, template_name)
            /\ _manifest' = LoadedManifest(got.manifest)
            /\ manifest_file' = got.file
            /\ effects' = got.effects
            /\ UNCHANGED <<file, templates_cache, cli>>

ResolveTemplate == ResolveTemplateOf(Queries)

\* what the download and the cache directory may do during one call
ReadOutcomes(template_name) ==
    IF templates_cache[cache_file(template_name)].exists THEN BOOLEAN ELSE {TRUE}

GetTemplateContent ==
    \E template_name \in ContentNames, outcome \in FetchOutcomes, save_ok \in SaveOutcomes,
       download \in DownloadOutcomes, write_ok \in BOOLEAN :
        \E read_ok \in ReadOutcomes(template_name) :
            LET got == get_manifest(_manifest, manifest_file, outcome, save_ok)
                content == get_template_content(got.manifest, got.file, templates_cache,
                                                template_name, download, read_ok, write_ok)
            IN  /\ op' = "get_template_content"
                /\ args' = [template_name |-> template_name]
                /\ ret' = content.ret
                /\ _manifest' = LoadedManifest(got.manifest)
                /\ manifest_file' = got.file
                /\ effects' = [got.effects EXCEPT !.cache_read = content.cache_read,
                                                  !.download = content.download,
                                                  !.cache_write = content.cache_write]
                /\ templates_cache' = content.cache
                /\ UNCHANGED <<file, cli>>

\* a day passes
Tick ==
    /\ manifest_file.exists
    /\ manifest_file.age < MaxAgeDays
    /\ manifest_file' = [manifest_file EXCEPT !.age = @ + 1]
    /\ effects' = NoEffects
    /\ UNCHANGED <<file, op, args, ret, _manifest, templates_cache, cli>>

\* a week passes
Week ==
    /\ manifest_file.exists
    /\ manifest_file.age + CACHE_VALIDITY_DAYS <= MaxAgeDays
    /\ manifest_file' = [manifest_file EXCEPT !.age = @ + CACHE_VALIDITY_DAYS]
    /\ effects' = NoEffects
    /\ UNCHANGED <<file, op, args, ret, _manifest, templates_cache, cli>>

\* the process ends and a later one constructs a new TemplateManager
NewProcess ==
    /\ ~_manifest.isNone
    /\ _manifest' = NoManifest
    /\ op' = "init"
    /\ args' = <<>>
    /\ ret' = <<>>
    /\ effects' = NoEffects
    /\ UNCHANGED <<file, manifest_file, templates_cache, cli>>

NextTM == GetManifest \/ SearchTemplates \/ ResolveTemplate \/ Tick \/ NewProcess

SpecTM == InitTM /\ [][NextTM]_vars

\* Loading alone: processes that only ask for the catalog, over the days
NextLoad == GetManifest \/ Tick \/ NewProcess

SpecLoad == InitTM /\ [][NextLoad]_vars

\* Content: processes that ask for the catalog, search it with one of two
\* queries ("ab", "z") and ask for templates' content, over the weeks
FewQueries == { <<"a", "b">>, <<"z">> }

NextContent ==
    \/ GetManifest
    \/ SearchTemplatesOf(FewQueries)
    \/ ResolveTemplateOf(FewQueries)
    \/ GetTemplateContent
    \/ Week
    \/ NewProcess

SpecContent == InitTM /\ [][NextContent]_vars

----------------------------------------------------------------------------
\* Claims about search_templates (SpecTM)

Searched == op = "search_templates"

\* the fullNames of the catalog in memory, in iteration order
CatalogNames == all_templates(_manifest.val)

ExactMatches(query) ==
    { i \in 1..Len(CatalogNames) : lower(CatalogNames[i]) = lower(query) }

\* C10: an empty or whitespace-only query gives the empty list, and a query
\* equal, case-insensitively, to some fullName gives a list of exactly one
\* element, a fullName equal to the query case-insensitively (the first such
\* name in catalog iteration order), whatever other names start with or
\* contain the query.
C10_ExactMatchGivesOneName ==
    Searched =>
        /\ strip(args.query) = <<>> => ret = <<>>
        /\ (strip(args.query) # <<>> /\ ExactMatches(args.query) # {}) =>
              LET first == CHOOSE i \in ExactMatches(args.query) :
                               \A j \in ExactMatches(args.query) : i <= j
              IN  /\ Len(ret) = 1
                  /\ lower(ret[1]) = lower(args.query)
                  /\ ret = <<CatalogNames[first]>>

\* C10 witness: the query equals one fullName while other fullNames start
\* with it or contain it, and the list holds the one name.
C10_Witness ==
    /\ Searched
    /\ ExactMatches(args.query) # {}
    /\ \E i \in 1..Len(CatalogNames) :
          /\ lower(CatalogNames[i]) # lower(args.query)
          /\ startswith(lower(CatalogNames[i]), lower(args.query))
    /\ \E i \in 1..Len(CatalogNames) :
          /\ ~startswith(lower(CatalogNames[i]), lower(args.query))
          /\ contains(lower(CatalogNames[i]), lower(args.query))
    /\ Len(ret) = 1

\* the catalog names, in iteration order, whose lowercase starts with q
StartingWith(q) == SelectSeq(CatalogNames, LAMBDA n : startswith(lower(n), q))

\* the catalog names, in iteration order, whose lowercase holds q elsewhere
\* than at its start only
HoldingOnly(q) ==
    SelectSeq(CatalogNames,
              LAMBDA n : ~startswith(lower(n), q) /\ contains(lower(n), q))

NoExactMatch ==
    Searched /\ strip(args.query) # <<>> /\ ExactMatches(args.query) = {}

\* C11: when no fullName equals the query case-insensitively, the list is,
\* without duplicates, the fullNames whose lowercase starts with the lowercase
\* query followed by the other fullNames whose lowercase contains it, each
\* group in catalog iteration order (root, Global, community): every name
\* returned contains the query and every name containing it is returned.
C11_PrefixThenPartialMatches ==
    NoExactMatch =>
        LET q == lower(args.query)
        IN  /\ ret = StartingWith(q) \o HoldingOnly(q)
            /\ \A i, j \in 1..Len(ret) : ret[i] = ret[j] => i = j
            /\ \A i \in 1..Len(ret) : contains(lower(ret[i]), q)
            /\ \A i \in 1..Len(CatalogNames) :
                  contains(lower(CatalogNames[i]), q) =>
                      \E j \in 1..Len(ret) : ret[j] = CatalogNames[i]

\* C11 witness: two names start with the query, a name of an earlier category
\* only contains it, and the list puts that name last.
C11_Witness ==
    /\ NoExactMatch
    /\ Len(StartingWith(lower(args.query))) >= 2
    /\ HoldingOnly(lower(args.query)) # <<>>
    /\ \E i, j \in 1..Len(CatalogNames) :
          /\ i < j
          /\ CatalogNames[i] = ret[Len(ret)]
          /\ CatalogNames[j] = ret[1]

----------------------------------------------------------------------------
\* Claims about resolve_template (SpecTM)

Resolved == op = "resolve_template"

\* what search_templates yields for the query resolved, on the same catalog
Candidates == search_templates(_manifest.val, args.query)

\* C12: resolve_template returns None when search_templates yields no
\* candidate or two and more for the same input, and the one candidate when
\* it yields exactly one; a query equal, case-insensitively, to a fullName
\* resolves to such a fullName (the first in catalog iteration order).
C12_ResolvesTheOnlyCandidate ==
    Resolved =>
        /\ Len(Candidates) # 1 => ret = None
        /\ Len(Candidates) = 1 => ret = Some(Candidates[1])
        /\ ExactMatches(args.query) # {} =>
              /\ ret # None
              /\ \E i \in ExactMatches(args.query) :
                    /\ ret = Some(CatalogNames[i])
                    /\ \A j \in ExactMatches(args.query) : i <= j

\* C12 witness: the query has several candidates and resolves to None.
C12_Witness ==
    /\ Resolved
    /\ Len(Candidates) >= 2
    /\ ret = None

----------------------------------------------------------------------------
\* Claims about the persisted catalog (SpecLoad)

\* the step was a call that found no catalog in memory and loaded one
Loads == effects.call /\ ~effects.in_memory

\* the step sent at least one listing request
Fetches == \E r \in Requests : effects.responses[r] # "unsent"

\* C13: the persisted catalog is valid right after a fetch has persisted it;
\* a load takes it as valid (opens it instead of fetching first) exactly when
\* it exists and its age is strictly less than 7 days: at exactly 7 days and
\* beyond, and when there is no persisted catalog, it is not opened and the
\* catalog is fetched.
C13_ValidUnderSevenDays ==
    /\ effects.save = "ok" => _is_cache_valid(manifest_file)
    /\ Loads =>
          /\ effects.read # "none" <=> (effects.stat.exists /\ effects.stat.age < 7)
          /\ effects.read = "none" => Fetches
          /\ effects.read = "ok" => ~Fetches

\* C13 witness: a load finds the persisted catalog exactly 7 days old, does
\* not open it, fetches and persists the catalog anew.
C13_Witness ==
    /\ Loads
    /\ effects.stat.exists
    /\ effects.stat.age = 7
    /\ effects.read = "none"
    /\ Fetches
    /\ effects.save = "ok"
    /\ manifest_file.age = 0

\* the catalog in memory holds the name in the category
Holds(category, name) ==
    \E i \in 1..Len(_manifest.val[category]) : _manifest.val[category][i] = name

\* the ".gitignore" files a listing names
Templates(items) ==
    { i \in 1..Len(items) : items[i].type = "file" /\ items[i].gitignore }

Dirs(items) == { i \in 1..Len(items) : items[i].type = "dir" }

\* each listing is queried, its entries are in the catalog when it came, and
\* only its own part of the catalog is empty when it did not
EachListingOnItsOwn ==
    LET sent == effects.responses
    IN  /\ sent["root"] # "unsent" /\ sent["Global"] # "unsent"
        /\ sent["community"] # "unsent"
        /\ sent["community"] = "ok" => sent["dir"] # "unsent"
        /\ IF sent["root"] = "ok"
           THEN \A i \in Templates(RemoteRoot) : Holds("root", RemoteRoot[i].name)
           ELSE _manifest.val.root = <<>>
        /\ IF sent["Global"] = "ok"
           THEN \A i \in Templates(RemoteGlobal) :
                    Holds("Global", GlobalFolder \o <<"/">> \o RemoteGlobal[i].name)
           ELSE _manifest.val.Global = <<>>
        /\ IF sent["community"] = "ok"
           THEN /\ \A i \in Templates(RemoteCommunity) :
                      Holds("community",
                            CommunityFolder \o <<"/">> \o RemoteCommunity[i].name)
                /\ \A d \in Dirs(RemoteCommunity) :
                      \A i \in Templates(RemoteCommunity[d].items) :
                          Holds("community",
                                CommunityFolder \o <<"/">> \o RemoteCommunity[d].name
                                    \o <<"/">> \o RemoteCommunity[d].items[i].name)
                          <=> sent["dir"] = "ok"
           ELSE _manifest.val.community = <<>>

\* C14 as claimed: in a fetch, a network or parse failure of any one listing
\* request (root, category subtree, nested directory) leaves only its part of
\* the catalog empty: the other listings are still queried and their entries
\* are present.
C14_AnyListingFailureLeavesTheRest == (Loads /\ Fetches) => EachListingOnItsOwn

\* C14 amended: that holds of a parse failure of the root listing and of a
\* network or parse failure of a category subtree or nested directory
\* listing; a root listing that brings nothing ends the fetch: no other
\* listing is queried, the catalog returned is the bare empty dict and
\* nothing is persisted.
C14_ListingFailureLeavesTheRestUnlessRootIsNone ==
    (Loads /\ Fetches) =>
        IF effects.responses["root"] = "none"
        THEN /\ \A r \in Requests \ {"root"} : effects.responses[r] = "unsent"
             /\ _manifest.val = EmptyDict
             /\ effects.save = "none"
        ELSE EachListingOnItsOwn

\* C14 witness: the Global listing fails, the root and community listings
\* and the nested directory's come, and their templates are in the catalog.
C14_Witness ==
    /\ Loads
    /\ effects.responses["Global"] \in {"none", "bad json"}
    /\ effects.responses["root"] = "ok"
    /\ effects.responses["community"] = "ok"
    /\ effects.responses["dir"] = "ok"
    /\ _manifest.val.Global = <<>>
    /\ Len(_manifest.val.root) = 3
    /\ Len(_manifest.val.community) = 2

\* the step loaded from a persisted catalog that is within the validity
\* window but could not be read or parsed
LoadsUnreadable ==
    /\ Loads
    /\ op = "get_manifest"
    /\ effects.stat.exists /\ effects.stat.age < 7
    /\ effects.read = "raises"

\* the catalog returned is the one a fetch builds from the responses it got
ReturnsTheFetch ==
    /\ Fetches
    /\ ret = _manifest.val
    /\ IF effects.responses["root"] = "none" THEN ret = EmptyDict
       ELSE EachListingOnItsOwn

\* the manifest file holds the catalog returned, written just now
Persisted ==
    /\ manifest_file.exists /\ manifest_file.readable
    /\ manifest_file.age = 0
    /\ manifest_file.data = ret

----------------------------------------------------------------------------
\* Claims about the catalog in memory and the content cache (SpecContent)

\* C16: once get_manifest has returned for a TemplateManager, every later
\* call of get_manifest, search_templates, resolve_template or
\* get_template_content in the same process uses the catalog in memory: the
\* catalog is the same after the call, no listing request is sent and the
\* persisted catalog is neither read nor written, also when the first load
\* failed or the persisted catalog has become stale.
C16_CatalogLoadedOncePerProcess ==
    [][(~_manifest.isNone /\ effects'.call) =>
          /\ _manifest' = _manifest
          /\ effects'.in_memory
          /\ effects'.responses = Unsent
          /\ effects'.read = "none"
          /\ effects'.save = "none"
          /\ manifest_file' = manifest_file
          /\ op' = "get_manifest" => ret' = _manifest.val]_vars

\* C16 witness: the first load of the process failed (the catalog in memory
\* is the empty dict), the persisted catalog is stale, and a later
\* get_template_content answers from memory without any listing request.
C16_Witness ==
    /\ op = "get_template_content"
    /\ effects.call /\ effects.in_memory
    /\ _manifest.val = EmptyDict
    /\ manifest_file.exists /\ manifest_file.age >= 7
    /\ effects.responses = Unsent
    /\ effects.read = "none"

\* the step was a call of get_template_content
AsksContent == op' = "get_template_content" /\ effects'.call

\* the name asked for is in a category of the catalog the call used
Known ==
    \E i \in 1..Len(all_templates(_manifest'.val)) :
        all_templates(_manifest'.val)[i] = args'.template_name

\* the cache file of the name asked for, as the call found it
Cached == templates_cache[cache_file(args'.template_name)]

HasCR(text) == \E i \in 1..Len(text) : text[i] = CR

\* C17 as claimed: once a template's content is stored in the local content
\* cache, every later get_template_content for that name, while the name is
\* in the catalog, returns exactly the cached text and performs no download.
C17_CachedContentIsReturnedAsStored ==
    [][(AsksContent /\ Known /\ Cached.exists) =>
          /\ ret' = Some(Cached.text)
          /\ effects'.download = "unsent"
          /\ templates_cache' = templates_cache]_vars

\* C17 amended: such a call opens the cache file; when it can be read, the
\* call returns the stored text as text mode reads it (each "\r\n" and "\r"
\* comes back as "\n", so a text without carriage returns comes back exactly),
\* performs no download and leaves the cache as it is, whatever the age of the
\* persisted catalog and also when this call has just fetched the catalog
\* anew; when reading it raises, the content is requested again.
C17_CachedContentIsReturnedAsRead ==
    [][(AsksContent /\ Known /\ Cached.exists) =>
          IF effects'.cache_read = "ok"
          THEN /\ ret' = Some(text_read(Cached.text))
               /\ ~HasCR(ret'.val)
               /\ ~HasCR(Cached.text) => ret' = Some(Cached.text)
               /\ effects'.download = "unsent"
               /\ templates_cache' = templates_cache
          ELSE /\ effects'.cache_read = "raises"
               /\ effects'.download # "unsent"]_vars

\* C17 witness: a new process finds the persisted catalog stale, fetches it
\* anew and answers from the content cache without a download.
C17_Witness ==
    /\ op = "get_template_content"
    /\ effects.call /\ ~effects.in_memory
    /\ effects.stat.exists /\ effects.stat.age >= 7
    /\ effects.responses["root"] = "ok"
    /\ effects.cache_read = "ok"
    /\ effects.download = "unsent"
    /\ ret = Some(<<"x", NL>>)
    /\ templates_cache[cache_file(args.template_name)].text = <<"x", NL>>

\* C18: get_template_content returns None without any download when the name
\* is in no category of the catalog; when the name is known and not cached, the
\* download is requested, and when it fails the call returns None and leaves
\* the content cache as it was, with no entry for the name, so that a later
\* call requests the download again.
C18_UnknownOrFailedGivesNone ==
    [][AsksContent =>
          /\ ~Known =>
                /\ ret' = None
                /\ effects'.download = "unsent"
                /\ templates_cache' = templates_cache
          /\ (Known /\ ~Cached.exists) =>
                /\ effects'.download # "unsent"
                /\ effects'.download = "none" =>
                      /\ ret' = None
                      /\ templates_cache' = templates_cache
                      /\ ~templates_cache'[cache_file(args'.template_name)].exists]_vars

\* C18 witness: the name is in the catalog and not cached, the download
\* fails, the call returns None and the cache has no entry for the name.
C18_Witness ==
    /\ op = "get_template_content"
    /\ effects.call
    /\ \E i \in 1..Len(CatalogNames) : CatalogNames[i] = args.template_name
    /\ effects.cache_read = "none"
    /\ effects.download = "none"
    /\ ret = None
    /\ ~templates_cache[cache_file(args.template_name)].exists

----------------------------------------------------------------------------
\* Claims about generate's failures (Spec)

IoFailures == {"read raises", "open raises", "write raises"}

\* C19: generate with an empty template list returns (False, message) in
\* every mode and leaves the output file exactly as it was; a failure to read
\* or to write the output file is returned as (False, message) too, and is not
\* raised to the caller.
C19_EmptyListAndIoFailuresAreReturned ==
    Generated =>
        /\ args.templates = <<>> =>
              /\ ret = [success |-> FALSE, message |-> "No templates provided",
                        raised |-> FALSE]
              /\ file = args.before
        /\ ( /\ args.templates # <<>>
             /\ args.io \in IoFailures
             /\ ~(args.before.exists /\ args.merge_strategy = "cancel") ) =>
              ret = [success |-> FALSE, message |-> "Error writing .gitignore",
                     raised |-> FALSE]

\* C19 witness: an empty list in overwrite mode on a file that holds rules:
\* (False, message) and the file is as it was.
C19_Witness ==
    /\ Generated
    /\ args.templates = <<>>
    /\ args.merge_strategy = "overwrite"
    /\ args.before.exists
    /\ _extract_rules(args.before.text) # {}
    /\ ~ret.success
    /\ file = args.before

----------------------------------------------------------------------------
\* GitignoreGeneratorCLI.run (cli.py) with the prompts it calls (prompt.py)

\* _map_os_to_templates: "Global/<os>" for the three names of the mapping,
\* any other name is left out
OsTemplate(os) ==
    GlobalFolder \o <<"/">> \o
        (CASE os = "Windows" -> <<"W", "i", "n", "d", "o", "w", "s">>
           [] os = "macOS" -> <<"m", "a", "c", "O", "S">>
           [] OTHER -> <<"L", "i", "n", "u", "x">>)

_map_os_to_templates(os_list) ==
    LET mapped == SelectSeq(os_list, LAMBDA os : os \in {"Windows", "macOS", "Linux"})
    IN  [i \in 1..Len(mapped) |-> OsTemplate(mapped[i])]

\* what prompt_os_selection may return: the names typed, or [detected_os],
\* which is platform.system() itself on a platform other than the three
OsSelections == { <<"Linux">>, <<"FreeBSD">> }

\* what the user types at the language and search prompts: "ab", "a"
CliQueries == { <<"a", "b">>, <<"a">> }

\* most entries followed at the language and search prompts of one run
MaxEntries == 1

\* what the remote source may do during one call of a run: every listing
\* comes, or the root listing brings nothing; only a call that loads the
\* catalog sends requests
CliFetchOutcomes ==
    IF FetchOutcomes = {AllOk} THEN {AllOk}
    ELSE {AllOk, [AllOk EXCEPT !["root"] = "none"]}

\* what one download may bring during a run: nothing, or a one-line template
CliDownloads == { None, Some(<<"x", NL>>) }

\* show_template_search_results: the numbers the user may type for a list of
\* matches, 0 standing for an empty line
Picks(resolved, matches) ==
    IF ~Truthy(resolved) /\ Len(matches) > 1 THEN 0..Len(matches) ELSE {0}

\* the template taken for one input: the resolved name, else the only
\* match, else the match the user picks from several
choose_template(resolved, matches, pick) ==
    IF Truthy(resolved) THEN resolved
    ELSE IF matches = <<>> THEN None
    ELSE IF Len(matches) = 1 THEN Some(matches[1])
    ELSE IF pick = 0 THEN None
    ELSE Some(matches[pick])

member(x, list) == \E i \in 1..Len(list) : list[i] = x

\* run's exit code after generate, were it 0 whatever generate returned
exit_code_always_zero(success) == 0

\* run's exit code after generate
exit_code(success) == IF success THEN 0 ELSE 1

\* a run about to start on the file f: before, writes, summary_ok, preview_ok
\* and ended keep what the run found and did, exit is -1 until run returns
NewRun(f) ==
    [pc |-> "step1", gitignore_exists |-> FALSE, merge_strategy |-> "create",
     selected_os |-> <<>>, selected_languages |-> <<>>,
     additional_templates |-> <<>>, entries |-> 0, todo |-> <<>>,
     selected_templates |-> <<>>, exit |-> -1,
     before |-> f, writes |-> 0, summary_ok |-> FALSE, preview_ok |-> FALSE,
     ended |-> "running"]

Returned(run, code, why) == [run EXCEPT !.pc = "returned", !.exit = code, !.ended = why]

InitCLI ==
    /\ file \in {NoFile, [exists |-> TRUE, text |-> docUser]}
    /\ op = "init"
    /\ args = <<>>
    /\ ret = <<>>
    /\ _manifest = NoManifest
    /\ manifest_file = NoManifestFile
    /\ effects = NoEffects
    /\ templates_cache = EmptyCache
    /\ cli = NewRun(file)

\* Step 1: output_path.exists() and prompt_merge_strategy
CheckExisting ==
    /\ cli.pc = "step1"
    /\ \E choice \in {"overwrite", "append", "cancel"} :
          cli' = IF file.exists /\ choice = "cancel"
                 THEN Returned([cli EXCEPT !.gitignore_exists = TRUE], 1, "merge cancel")
                 ELSE [cli EXCEPT !.pc = "step2",
                                  !.gitignore_exists = file.exists,
                                  !.merge_strategy =
                                      IF file.exists THEN choice ELSE "create"]
    /\ UNCHANGED <<file, op, args, ret, _manifest, manifest_file, effects, templates_cache>>

\* Step 2: prompt_os_selection
SelectOs ==
    /\ cli.pc = "step2"
    /\ \E selected \in OsSelections :
          cli' = [cli EXCEPT !.pc = "step3", !.selected_os = selected]
    /\ UNCHANGED <<file, op, args, ret, _manifest, manifest_file, effects, templates_cache>>

\* Step 3, one turn of prompt_and_resolve_languages with a language typed
EnterLanguage ==
    /\ cli.pc = "step3"
    /\ cli.entries < MaxEntries
    /\ \E lang \in CliQueries, outcome \in CliFetchOutcomes, save_ok \in SaveOutcomes :
          LET got == get_manifest(_manifest, manifest_file, outcome, save_ok)
              resolved == resolve_template(got.manifest, lang)
              matches == search_templates(got.manifest, lang)
          IN  \E pick \in Picks(resolved, matches) :
                LET added == choose_template(resolved, matches, pick)
                IN  /\ cli' = [cli EXCEPT
                                 !.entries = @ + 1,
                                 !.selected_languages =
                                     IF Truthy(added) /\ ~member(added.val, @)
                                     THEN Append(@, added.val) ELSE @]
                    /\ _manifest' = LoadedManifest(got.manifest)
                    /\ manifest_file' = got.file
    /\ UNCHANGED <<file, op, args, ret, effects, templates_cache>>

\* Step 3 ends on an empty line
FinishLanguages ==
    /\ cli.pc = "step3"
    /\ cli' = [cli EXCEPT !.pc = "step4"]
    /\ UNCHANGED <<file, op, args, ret, _manifest, manifest_file, effects, templates_cache>>

\* Step 4, one turn of prompt_additional_templates with a query typed
EnterSearch ==
    /\ cli.pc = "step4"
    /\ cli.entries < MaxEntries
    /\ \E search_query \in CliQueries, outcome \in CliFetchOutcomes, save_ok \in SaveOutcomes :
          LET got == get_manifest(_manifest, manifest_file, outcome, save_ok)
              matches == search_templates(got.manifest, search_query)
          IN  \E pick \in Picks(None, matches) :
                LET selected == choose_template(None, matches, pick)
                IN  /\ cli' = [cli EXCEPT
                                 !.entries = @ + 1,
                                 !.additional_templates =
                                     IF Truthy(selected) THEN Append(@, selected.val)
                                     ELSE @]
                    /\ _manifest' = LoadedManifest(got.manifest)
                    /\ manifest_file' = got.file
    /\ UNCHANGED <<file, op, args, ret, effects, templates_cache>>

\* Step 4 ends on an empty line
FinishSearch ==
    /\ cli.pc = "step4"
    /\ cli' = [cli EXCEPT !.pc = "step5"]
    /\ UNCHANGED <<file, op, args, ret, _manifest, manifest_file, effects, templates_cache>>

\* Step 5: show_summary
ShowSummary ==
    /\ cli.pc = "step5"
    /\ \E proceed \in BOOLEAN :
          cli' = IF proceed
                 THEN [cli EXCEPT !.pc = "step6", !.summary_ok = TRUE,
                                  !.todo = _map_os_to_templates(cli.selected_os)
                                           \o cli.selected_languages
                                           \o cli.additional_templates]
                 ELSE Returned(cli, 1, "summary cancel")
    /\ UNCHANGED <<file, op, args, ret, _manifest, manifest_file, effects, templates_cache>>

\* Step 6, one turn of the loop of _fetch_and_resolve_templates
FetchAndResolve ==
    /\ cli.pc = "step6"
    /\ cli.todo # <<>>
    /\ \E outcome \in CliFetchOutcomes, save_ok \in SaveOutcomes,
          download \in CliDownloads, read_ok \in BOOLEAN, write_ok \in BOOLEAN :
          LET template_name == Head(cli.todo)
              got == get_manifest(_manifest, manifest_file, outcome, save_ok)
              resolved == resolve_template(got.manifest, template_name)
              matches == search_templates(got.manifest, template_name)
          IN  \E pick \in Picks(resolved, matches) :
                LET chosen == choose_template(resolved, matches, pick)
                    fetched == get_template_content(got.manifest, got.file, templates_cache,
                                                    chosen.val, download, read_ok, write_ok)
                IN  /\ cli' = [cli EXCEPT
                                 !.todo = Tail(@),
                                 !.selected_templates =
                                     IF Truthy(chosen) /\ Truthy(fetched.ret)
                                     THEN Append(@, <<chosen.val, fetched.ret.val>>)
                                     ELSE @]
                    /\ templates_cache' = IF Truthy(chosen) THEN fetched.cache
                                          ELSE templates_cache
                    /\ _manifest' = LoadedManifest(got.manifest)
                    /\ manifest_file' = got.file
    /\ UNCHANGED <<file, op, args, ret, effects>>

\* Step 6 ends: nothing fetched ends the run
FetchDone ==
    /\ cli.pc = "step6"
    /\ cli.todo = <<>>
    /\ cli' = IF cli.selected_templates = <<>>
              THEN Returned(cli, 1, "no templates")
              ELSE [cli EXCEPT !.pc = "step7"]
    /\ UNCHANGED <<file, op, args, ret, _manifest, manifest_file, effects, templates_cache>>

\* Step 7: the diff against the existing file when appending, which reads the
\* file outside any try block, then prompt_dry_run
DryRun ==
    /\ cli.pc = "step7"
    /\ \E read_ok \in (IF cli.gitignore_exists /\ cli.merge_strategy = "append"
                       THEN BOOLEAN ELSE {TRUE}),
          proceed \in BOOLEAN :
          cli' = IF ~read_ok THEN [cli EXCEPT !.pc = "raised", !.ended = "raised"]
                 ELSE IF proceed THEN [cli EXCEPT !.pc = "step8", !.preview_ok = TRUE]
                 ELSE Returned(cli, 1, "preview cancel")
    /\ UNCHANGED <<file, op, args, ret, _manifest, manifest_file, effects, templates_cache>>

\* Step 8: generate and the exit code
RunGenerate ==
    /\ cli.pc = "step8"
    /\ \E io \in IoOutcomes :
          LET result == generate(cli.selected_templates, cli.merge_strategy, io, file)
          IN  /\ io = "read raises" => file.exists /\ cli.merge_strategy = "append"
              /\ file' = result.file
              /\ cli' = IF result.raised
                        THEN [cli EXCEPT !.pc = "raised", !.ended = "raised"]
                        ELSE [Returned(cli, exit_code(result.success), "generate")
                                EXCEPT !.writes =
                                    IF result.success THEN @ + 1
                                    ELSE IF io = "write raises" THEN @ + 1
                                    ELSE @]
    /\ UNCHANGED <<op, args, ret, _manifest, manifest_file, effects, templates_cache>>

\* an exception leaves run: KeyboardInterrupt at a prompt, OSError from
\* output_path.exists() in step 1
Interrupt ==
    /\ cli.pc \in {"step1", "step2", "step3", "step4", "step5", "step7"}
    /\ cli' = [cli EXCEPT !.pc = "raised", !.ended = "raised"]
    /\ UNCHANGED <<file, op, args, ret, _manifest, manifest_file, effects, templates_cache>>

NextCLI ==
    \/ CheckExisting
    \/ SelectOs
    \/ EnterLanguage
    \/ FinishLanguages
    \/ EnterSearch
    \/ FinishSearch
    \/ ShowSummary
    \/ FetchAndResolve
    \/ FetchDone
    \/ DryRun
    \/ RunGenerate
    \/ Interrupt

SpecCLI == InitCLI /\ [][NextCLI]_vars

----------------------------------------------------------------------------
\* C20

\* the run ended at one of the points where nothing is to be written
EndedWithoutWriting ==
    cli.ended \in {"merge cancel", "summary cancel", "preview cancel", "no templates"}

\* the step about to be taken is the generate step of a run whose summary
\* and preview were both accepted and which has not written yet
FinalStepAfterBothConfirmations ==
    /\ cli.pc = "step8"
    /\ cli.summary_ok
    /\ cli.preview_ok
    /\ cli.writes = 0

\* C20: in every run of the interactive flow the output file is written at
\* most once, and only by the generate step after the summary and the
\* preview were both accepted; a run that ends on a cancel at the merge
\* prompt, the summary or the preview, or with no template fetched, returns
\* 1 with the file as the run found it; a run that returns 0 has written
\* the file.
C20_WrittenOnceAfterBothConfirmations ==
    /\ [](/\ cli.writes <= 1
          /\ cli.writes = 0 => file = cli.before
          /\ EndedWithoutWriting =>
                cli.pc = "returned" /\ cli.exit = 1 /\ file = cli.before
          /\ (cli.pc = "returned" /\ cli.exit = 0) => cli.writes = 1)
    /\ [][(file' # file \/ cli'.writes # cli.writes)
             => FinalStepAfterBothConfirmations]_vars

\* a run that found a file, went through both confirmations, wrote the file
\* anew and returned 0
C20_Witness ==
    /\ cli.pc = "returned"
    /\ cli.exit = 0
    /\ cli.writes = 1
    /\ cli.before.exists
    /\ file # cli.before

----------------------------------------------------------------------------
\* C21

\* the rules of the existing document, when it is preserved
PreservedRules ==
    IF args.preserve_existing /\ Truthy(args.existing_content)
    THEN _extract_rules(args.existing_content.val)
    ELSE {}

\* the rules seen before the i-th template: those of the preserved document
\* and of every earlier template
SeenBefore(i) ==
    PreservedRules \cup UNION { RulesOf(args.templates[k]) : k \in 1..(i - 1) }

HasNewRule(i) == RulesOf(args.templates[i]) \ SeenBefore(i) # {}

\* the sections, each with the template's whole content and a blank line
\* after it, of the templates from the i-th on that have a new rule
RECURSIVE SectionsFrom(_)
SectionsFrom(i) ==
    IF i > Len(args.templates) THEN <<>>
    ELSE (IF HasNewRule(i)
          THEN template_to_section(args.templates[i][1], args.templates[i][2]) \o <<NL>>
          ELSE <<>>) \o SectionsFrom(i + 1)

----------------------------------------------------------------------------
\* prompt_os_selection (prompt.py)

\* os_mapping: the lower-cased name of each available OS to the name itself
os_mapping ==
    [k \in { <<"w", "i", "n", "d", "o", "w", "s">>, <<"m", "a", "c", "o", "s">>,
             <<"l", "i", "n", "u", "x">> } |->
        IF k = <<"w", "i", "n", "d", "o", "w", "s">> THEN "Windows"
        ELSE IF k = <<"m", "a", "c", "o", "s">> THEN "macOS"
        ELSE "Linux"]

\* the local variable invalid before its first assignment
Unbound == [bound |-> FALSE, val |-> <<>>]
Bound(list) == [bound |-> TRUE, val |-> list]

\* user_selections: the comma-separated parts, stripped and lower-cased
user_selections(user_input) ==
    LET parts == split(user_input, ",")
    IN  [i \in 1..Len(parts) |-> lower(strip(parts[i]))]

\* One turn of the "while True" loop for the line read by input(), None
\* standing for end of input. invalid is the local variable as the turn finds
\* it: an empty line assigns selected only, so that "if invalid" reads what
\* an earlier turn left, and raises UnboundLocalError when there was none.
prompt_os_turn(detected_os, invalid, line) ==
    LET user_input == strip(line.val)
        typed == user_selections(user_input)
        known == SelectSeq(typed, LAMBDA user_os : user_os \in DOMAIN os_mapping)
        selected == IF user_input = <<>> THEN <<detected_os>>
                    ELSE [i \in 1..Len(known) |-> os_mapping[known[i]]]
        now_invalid == IF user_input = <<>> THEN invalid
                       ELSE Bound(SelectSeq(typed,
                                LAMBDA user_os : user_os \notin DOMAIN os_mapping))
    IN  IF line.isNone
        THEN [pc |-> "returned", ret |-> <<detected_os>>, invalid |-> invalid]
        ELSE IF ~now_invalid.bound
        THEN [pc |-> "raised", ret |-> <<>>, invalid |-> now_invalid]
        ELSE IF now_invalid.val # <<>>
        THEN [pc |-> "prompting", ret |-> <<>>, invalid |-> now_invalid]
        ELSE IF selected = <<>>
        THEN [pc |-> "prompting", ret |-> <<>>, invalid |-> now_invalid]
        ELSE [pc |-> "returned", ret |-> selected, invalid |-> now_invalid]

\* get_platform_name: one of the three names, or platform.system() itself
DetectedOs == {"Windows", "macOS", "Linux", "FreeBSD"}

\* the lines the user may type: "", " ", "x", ",", "linux", "Linux",
\* " macOS , linux", "linux,x", "x,y", "windows"; None is the end of input
OsLines ==
    { None, Some(<<>>), Some(<<" ">>), Some(<<"x">>), Some(<<",">>),
      Some(<<"l", "i", "n", "u", "x">>), Some(<<"L", "i", "n", "u", "x">>),
      Some(<<" ", "m", "a", "c", "O", "S", " ", ",", " ", "l", "i", "n", "u", "x">>),
      Some(<<"l", "i", "n", "u", "x", ",", "x">>), Some(<<"x", ",", "y">>),
      Some(<<"w", "i", "n", "d", "o", "w", "s">>) }

\* the call has begun and waits at its first prompt; cli.first says whether
\* the line just read was the first one
InitOs ==
    /\ file = NoFile
    /\ op = "init"
    /\ args = None
    /\ ret = <<>>
    /\ _manifest = NoManifest
    /\ manifest_file = NoManifestFile
    /\ effects = NoEffects
    /\ templates_cache = EmptyCache
    /\ \E detected_os \in DetectedOs :
          cli = [pc |-> "prompting", detected_os |-> detected_os,
                 invalid |-> Unbound, first |-> TRUE]

\* the user answers the prompt
AnswerOsPrompt ==
    /\ cli.pc = "prompting"
    /\ \E line \in OsLines :
          LET turn == prompt_os_turn(cli.detected_os, cli.invalid, line)
          IN  /\ op' = "input"
              /\ args' = line
              /\ ret' = turn.ret
              /\ cli' = [pc |-> turn.pc, detected_os |-> cli.detected_os,
                         invalid |-> turn.invalid, first |-> op = "init"]
    /\ UNCHANGED <<file, _manifest, manifest_file, effects, templates_cache>>

NextOs == AnswerOsPrompt

SpecOs == InitOs /\ [][NextOs]_vars

----------------------------------------------------------------------------
\* C22

\* the line just read was empty or blank
EmptyLineSubmitted == op = "input" /\ ~args.isNone /\ strip(args.val) = <<>>

\* C22 (as claimed): whenever the user submits an empty line, at the first
\* prompt or after earlier entries were rejected as invalid,
\* prompt_os_selection ends and returns the list holding the detected OS only.
C22_EmptyLineReturnsDetectedOs ==
    EmptyLineSubmitted => (cli.pc = "returned" /\ ret = <<cli.detected_os>>)

----------------------------------------------------------------------------
\* C23

\* Specification of the persisted catalog serving later processes: loads,
\* searches and resolutions of names of the two categories, days passing
\* and processes succeeding each other.

\* the names asked for: "global/ab", "COMMUNITY/P/AB", "ab"
CategoryQueries ==
    { lower(GlobalFolder) \o <<"/", "a", "b">>,
      <<"C", "O", "M", "M", "U", "N", "I", "T", "Y", "/", "P", "/", "A", "B">>,
      <<"a", "b">> }

NextServe ==
    \/ GetManifest
    \/ SearchTemplatesOf(CategoryQueries)
    \/ ResolveTemplateOf(CategoryQueries)
    \/ Tick
    \/ NewProcess

SpecServe == InitTM /\ [][NextServe]_vars

Categories == {"Global", "community"}

\* the catalog of a fetch in which every listing comes
RemoteCatalog == _fetch_manifest_from_api(AllOk).manifest

\* the templates the remote source holds in the category
RemoteCategory(c) == RemoteCatalog[c]

\* the step loaded the catalog by a fetch in which the root listing came and
\* the listing of category c did not
FetchedWithout(c) ==
    /\ Loads
    /\ effects.responses["root"] = "ok"
    /\ effects.responses[c] \in {"none", "bad json"}

\* the manifest file holds the catalog in memory, written just now
PersistedFresh ==
    manifest_file = [exists |-> TRUE, age |-> 0, readable |-> TRUE,
                     data |-> _manifest.val]

\* a process without a catalog in memory finds the persisted catalog of a
\* fetch that got nothing for category c, within the validity window
FindsPersistedWithout(c) ==
    /\ _manifest.isNone
    /\ manifest_file.exists /\ manifest_file.readable
    /\ manifest_file.age < CACHE_VALIDITY_DAYS
    /\ manifest_file.data.timestamp
    /\ manifest_file.data[c] = <<>>

\* the call that follows returns the persisted catalog unchanged, sends no
\* request, and resolves or finds no template of category c
ServesPersistedWithout(c) ==
    /\ effects'.call /\ effects'.read = "ok"
    /\ effects'.responses = Unsent
    /\ effects'.save = "none"
    /\ manifest_file' = manifest_file
    /\ _manifest' = LoadedManifest(manifest_file.data)
    /\ _manifest'.val[c] = <<>>
    /\ op' = "get_manifest" => ret' = manifest_file.data
    /\ op' = "resolve_template" =>
          (ret'.isNone \/ ~member(ret'.val, RemoteCategory(c)))
    /\ op' = "search_templates" =>
          \A i \in 1..Len(ret') : ~member(ret'[i], RemoteCategory(c))

IsCall == op' \in {"get_manifest", "resolve_template", "search_templates"}

\* C23 (as claimed): when the root listing succeeds but a category's listing
\* fails during a fetch, the catalog with that category empty is still
\* persisted with a fresh timestamp; every load by a later process within
\* the 7-day window returns this persisted catalog without querying the
\* failed listing again, and no template of the category is resolved.
C23_PartialCatalogIsPersistedAndServed ==
    /\ [](\A c \in Categories :
            FetchedWithout(c) => (_manifest.val[c] = <<>> /\ PersistedFresh))
    /\ [][\A c \in Categories :
            (FindsPersistedWithout(c) /\ IsCall) => ServesPersistedWithout(c)]_vars

\* C23 amended: the catalog with that category empty is handed to
\* _save_manifest, and is persisted with a fresh timestamp when the manifest
\* file can be written; when it cannot, the manifest file is not the fetched
\* catalog and a later process fetches again. A catalog so persisted is
\* returned to every load by a later process within the 7-day window without
\* any request, and no template of the category is resolved.
C23_PartialCatalogIsServedOnceWritten ==
    /\ [](\A c \in Categories :
            FetchedWithout(c) =>
                /\ _manifest.val[c] = <<>>
                /\ effects.save \in {"ok", "raises"}
                /\ effects.save = "ok" <=> PersistedFresh)
    /\ [][\A c \in Categories :
            (FindsPersistedWithout(c) /\ IsCall) => ServesPersistedWithout(c)]_vars

\* C23 witness: a process has resolved "global/ab" to nothing from a
\* persisted catalog, some days old, whose Global category is empty while
\* the root templates are there, and sent no request for it
C23_Witness ==
    /\ op = "resolve_template"
    /\ args.query = lower(GlobalFolder) \o <<"/", "a", "b">>
    /\ ret.isNone
    /\ Loads
    /\ effects.read = "ok"
    /\ effects.stat.age > 0
    /\ effects.responses = Unsent
    /\ manifest_file.data.Global = <<>>
    /\ manifest_file.data.root # <<>>
    /\ _manifest.val = manifest_file.data

====
